---- MODULE Spec2Model ----
(***************************************************************************)
(* Model of scripts/moviepy_pipeline.py (render_video and its nested       *)
(* helper downscale_images) and of the caption-path handling in            *)
(* scripts/render_video.py (main).                                         *)
(*                                                                         *)
(* Time is an integer number of ticks; one centisecond is Scale ticks,     *)
(* where Scale is a multiple of every slide count the model can reach, so  *)
(* that Python's float division audio_duration / n is modelled by an exact *)
(* rational division.  Float rounding is not modelled.                     *)
(***************************************************************************)
EXTENDS Integers, Sequences, FiniteSets, TLC

VARIABLES
    pc,              \* position in render_video
    exc,             \* exception that left render_video ("" while none)
    listing,         \* what glob(images_dir/*.*) returned
    MAX_IMAGES,      \* int(os.getenv("MAX_IMAGES", "10"))
    collected,       \* images as handed on by the Image Collector (line 161)
    images,          \* the local `images` (rebound by downscale_images, line 170)
    tmpdir,          \* the scratch directory exists on disk
    tmp_created,     \* a scratch directory was created during this call
    tmp_files,       \* names of the files saved in tmpdir
    norm,            \* what the image library did in downscale_images (input)
    decoded,         \* what AudioFileClip(audio_path) did (input of the call)
    audio,           \* the local `audio`: "None" or "clip"
    audio_closed,    \* audio.close() was called on the decoded clip
    audio_duration,  \* the local `audio_duration`, ticks
    MODE,            \* the local `MODE`
    durations,       \* the local `durations`
    total_duration,  \* the local `total_duration`
    slides,          \* the local `slides`
    slideshow,       \* duration of the local `slideshow` (-1 before line 219)
    final,           \* the local `final`
    final_pre,       \* `final` as it was when the caption stage was entered
    cap,             \* inputs and outcome of the caption stage
    encoded          \* arguments of final.write_videofile, once it is called

vars == <<pc, exc, listing, MAX_IMAGES, collected, images, tmpdir, tmp_created,
          tmp_files, decoded, audio, audio_closed, audio_duration, MODE,
          durations, total_duration, slides, slideshow, final, final_pre, cap,
          encoded, norm>>

----------------------------------------------------------------------------
(* Bounds of the model *)

\* largest number of files the images directory holds
MaxFiles == 3

----------------------------------------------------------------------------
(* Time base *)

RECURSIVE Factorial(_)
Factorial(k) == IF k <= 1 THEN 1 ELSE k * Factorial(k - 1)

\* ticks per centisecond: divisible by every n in 1..MaxFiles
Scale == Factorial(MaxFiles)

Cs(c) == c * Scale

Max(a, b) == IF a >= b THEN a ELSE b
Min(a, b) == IF a <= b THEN a ELSE b

----------------------------------------------------------------------------
(* Settings of render_video *)

TARGET_W == 720
TARGET_H == 1280
BORDER_PX == 16
\* CONTENT_SCALE = 0.86, as a percentage
CONTENT_SCALE_PCT == 86
TRANSITION == Cs(60)
EPSILON == Cs(10)
\* TRANSITION + 0.2, the floor of both per-slide formulas
MinSlide == TRANSITION + Cs(20)
\* the 2.5 of the fallback per-slide duration
FallbackSlide == Cs(250)
\* audio_duration > 0.01
UsableThreshold == Cs(1)

\* int(TARGET_W * CONTENT_SCALE) - 2 * BORDER_PX
inner_w == ((TARGET_W * CONTENT_SCALE_PCT) \div 100) - 2 * BORDER_PX
inner_h == ((TARGET_H * CONTENT_SCALE_PCT) \div 100) - 2 * BORDER_PX

----------------------------------------------------------------------------
(* Inputs *)

\* File names, as sequences of character codes: "a", "B", "b", "Ca".
Names == { <<97>>, <<66>>, <<98>>, <<67, 97>> }

\* glob returns distinct paths, in arbitrary order
Listings ==
    { s \in UNION { [1..k -> Names] : k \in 0..MaxFiles } :
        \A i, j \in DOMAIN s : i # j => s[i] # s[j] }

\* values of the MAX_IMAGES environment override (10 is the default)
MaxImagesEnv == { -1, 0, 1, 2, 10 }

\* audio.duration as the decoder reports it, centiseconds, when it is a number
AudioCs == { -100, 0, 1, 2, 140, 900 }

Num(v) == [kind |-> "num", v |-> v]
NaN == [kind |-> "nan", v |-> 0]
Inf == [kind |-> "inf", v |-> 0]
PyNone == [kind |-> "None", v |-> 0]

\* outcomes of AudioFileClip(audio_path) followed by reading .duration
Decodings ==
    { [raises |-> TRUE, duration |-> PyNone] }
    \cup { [raises |-> FALSE, duration |-> d] :
             d \in { PyNone, NaN, Inf } \cup { Num(Cs(c)) : c \in AudioCs } }

NoDecoding == [raises |-> FALSE, duration |-> [kind |-> "unset", v |-> 0]]

----------------------------------------------------------------------------
(* Image Collector: sorted(glob(...), key=lambda p: basename(p).lower()),  *)
(* the emptiness check and the MAX_IMAGES cap                              *)

\* str.lower() on one character code (ASCII)
LowerChar(c) == IF c >= 65 /\ c <= 90 THEN c + 32 ELSE c

\* the sort key: os.path.basename(p).lower()
Key(name) == [i \in 1..Len(name) |-> LowerChar(name[i])]

\* Python's < on strings: lexicographic on code points
RECURSIVE StrLess(_, _)
StrLess(a, b) ==
    IF b = <<>> THEN FALSE
    ELSE IF a = <<>> THEN TRUE
    ELSE IF Head(a) # Head(b) THEN Head(a) < Head(b)
    ELSE StrLess(Tail(a), Tail(b))

\* insert x behind every element whose key is not greater (keeps sorted stable)
RECURSIVE InsertByKey(_, _)
InsertByKey(x, s) ==
    IF s = <<>> THEN <<x>>
    ELSE IF StrLess(Key(x), Key(Head(s))) THEN <<x>> \o s
    ELSE <<Head(s)>> \o InsertByKey(x, Tail(s))

\* sorted(listing, key=Key): a stable sort
RECURSIVE SortedByKey(_)
SortedByKey(s) ==
    IF s = <<>> THEN <<>>
    ELSE InsertByKey(s[Len(s)], SortedByKey(SubSeq(s, 1, Len(s) - 1)))

\* Python's s[:m]
SliceTo(s, m) ==
    IF m >= 0 THEN SubSeq(s, 1, Min(m, Len(s)))
    ELSE SubSeq(s, 1, Max(0, Len(s) + m))

\* lines 160-161: if len(images) > MAX_IMAGES: images = images[:MAX_IMAGES]
CapImages(s, m) == IF Len(s) > m THEN SliceTo(s, m) ELSE s

\* a path of the images directory
Orig(name) == [dir |-> "images", name |-> name]

----------------------------------------------------------------------------
(* Image Normalizer: downscale_images                                      *)

\* f"{idx:03d}.jpg" without the extension, as character codes
Fmt03(idx) ==
    << 48 + ((idx \div 100) % 10), 48 + ((idx \div 10) % 10), 48 + (idx % 10) >>

\* os.path.join(tmpdir, f"{idx:03d}.jpg")
Scratch(idx) == [dir |-> "tmp", name |-> Fmt03(idx)]

\* line 78 left out: a failed image contributes no entry
DropFailed(src) == <<>>

\* line 78: the entry of `resized` for an image that failed is its own path
KeepOriginal(src) == <<src>>

\* downscale_images(image_paths, max_w, max_h, tmpdir); pil: the image library
\* imports; fails: the positions at which decode, resize or save raises
downscale_images(image_paths, max_w, max_h, pil, fails) ==
    IF ~pil THEN image_paths
    ELSE IF max_w <= 0 \/ max_h <= 0 THEN image_paths
    ELSE LET RECURSIVE Loop(_, _)
             Loop(i, resized) ==
                 IF i > Len(image_paths) THEN resized
                 ELSE IF i \in fails
                      THEN Loop(i + 1, resized \o KeepOriginal(image_paths[i]))
                      ELSE Loop(i + 1, Append(resized, Scratch(i - 1)))
         IN Loop(1, <<>>)

NoNorm == [ran |-> FALSE, pil |-> FALSE, fails |-> {}]

\* the files downscale_images saved in the scratch directory
SavedFiles(image_paths, max_w, max_h, pil, fails) ==
    IF ~pil \/ max_w <= 0 \/ max_h <= 0 THEN {}
    ELSE { Fmt03(i - 1) : i \in (1..Len(image_paths)) \ fails }

\* a scratch directory that is removed by the last statement of the block only
ExitScratchNoFinally(exists, normal) == IF normal THEN FALSE ELSE exists

\* the with-statement of line 169 leaving its block: the directory is removed
\* on a normal exit and on an exception alike
ExitScratch(exists, normal) == FALSE

----------------------------------------------------------------------------
(* Audio decoding and the Timing Planner                                   *)

\* line 176: float(audio.duration or 0.0); None and 0 are falsy
DurationOrZero(d) ==
    IF d.kind = "None" \/ (d.kind = "num" /\ d.v = 0) THEN Num(0) ELSE d

\* lines 182-183: a non-finite duration becomes 0.0; the result is in ticks
FiniteOrZero(d) == IF d.kind = "num" THEN d.v ELSE 0

\* lines 174-179: the local `audio` after the try block
AudioAfterDecode(dec) == IF dec.raises THEN "None" ELSE "clip"

\* lines 174-183: the local `audio_duration` before the planner reads it
DurationAfterDecode(dec) ==
    IF dec.raises THEN 0 ELSE FiniteOrZero(DurationOrZero(dec.duration))

\* line 187 without EPSILON
PerSlideNoEpsilon(a, n) ==
    IF a > UsableThreshold
    THEN Max(a \div n, MinSlide)
    ELSE Max(FallbackSlide, MinSlide)

\* lines 185-189; a / n is exact, see Scale
PerSlide(a, n) ==
    IF a > UsableThreshold
    THEN Max((a \div n) + EPSILON, MinSlide)
    ELSE Max(FallbackSlide, MinSlide)

RECURSIVE SumSeq(_)
SumSeq(s) == IF s = <<>> THEN 0 ELSE Head(s) + SumSeq(Tail(s))

\* lines 197-202 without the drop of the audio source
FallbackAudioKept(a) == a

\* lines 197-202: the fallback drops the audio source
FallbackAudio(a) == "None"

----------------------------------------------------------------------------
(* Sequencer: concatenate_videoclips(slides, method="compose", padding=p)  *)

\* the start times moviepy gives the clips, and as last entry the end:
\* timings = maximum(0, cumsum([0] + durations) + padding * arange(n + 1))
Timing(ds, padding, i) == Max(0, SumSeq(SubSeq(ds, 1, i)) + padding * i)

\* duration of the concatenation: timings[-1] - padding
ConcatDuration(ds, padding) == Timing(ds, padding, Len(ds)) - padding

\* line 219 with padding=0: no overlap between the slides
SlideshowNoOverlap(ss) == ConcatDuration([i \in 1..Len(ss) |-> ss[i].duration], 0)

\* line 219
Slideshow(ss) ==
    ConcatDuration([i \in 1..Len(ss) |-> ss[i].duration], -TRANSITION)

----------------------------------------------------------------------------
(* Audio Binder, lines 224-239                                             *)

NoClip == [duration |-> -1, audio |-> "unset", audio_len |-> -1, captions |-> FALSE]

Clip(d, a, alen) == [duration |-> d, audio |-> a, audio_len |-> alen, captions |-> FALSE]

\* a: the local audio, mode: MODE, show: the slideshow's duration, adur:
\* audio_duration, total: total_duration, alen: length of the decoded track
Bind(a, mode, show, adur, total, alen) ==
    IF a # "None"
    THEN IF mode = "trim_to_audio"
         THEN [raises |-> FALSE, final |-> Clip(adur, "clip", alen)]
         ELSE IF mode = "pad_audio"
         THEN IF total > adur
              THEN [raises |-> FALSE,
                    final |-> Clip(total, "clip+silence", alen + (total - adur))]
              ELSE [raises |-> FALSE, final |-> Clip(adur, "clip", alen)]
         ELSE [raises |-> TRUE, final |-> NoClip]
    ELSE [raises |-> FALSE, final |-> Clip(total, "none", 0)]

----------------------------------------------------------------------------
(* Caption Overlay, lines 244-262, and main's handling of --captions-path  *)

\* render_video.py lines 14-16: a path that does not exist becomes None
MainCaptions(given, exists) == given /\ exists

\* line 244
CaptionsRun(given, exists, skip) == given /\ exists /\ ~skip

\* what can happen inside the try block of lines 245-260
CaptionOutcomes == { "ok", "parse_raises", "probe_raises", "composite_raises" }

NoCap == [given |-> FALSE, exists |-> FALSE, skip |-> FALSE, ran |-> FALSE,
          outcome |-> "unset"]

\* line 260: CompositeVideoClip([final, subs]).with_duration(final.duration)
Overlay(f) ==
    [duration |-> f.duration, audio |-> f.audio, audio_len |-> f.audio_len,
     captions |-> TRUE]

\* the strict variant: no try/except around the stage
CaptionStageStrict(f, outcome) ==
    [raises |-> outcome # "ok", final |-> IF outcome = "ok" THEN Overlay(f) ELSE f]

\* lines 245-262: `final` is assigned by the last statement of the try block
CaptionStage(f, outcome) ==
    [raises |-> FALSE, final |-> IF outcome = "ok" THEN Overlay(f) ELSE f]

NotEncoded == [called |-> FALSE, duration |-> -1, audio |-> FALSE,
               captions |-> FALSE, scratch |-> FALSE]

----------------------------------------------------------------------------
(* render_video as a state machine                                         *)

Init ==
    /\ pc = "collect"
    /\ exc = ""
    /\ listing = <<>>
    /\ MAX_IMAGES = 10
    /\ collected = <<>>
    /\ images = <<>>
    /\ tmpdir = FALSE
    /\ tmp_created = FALSE
    /\ tmp_files = {}
    /\ decoded = NoDecoding
    /\ audio = "None"
    /\ audio_closed = FALSE
    /\ audio_duration = 0
    /\ MODE = "trim_to_audio"
    /\ durations = <<>>
    /\ total_duration = 0
    /\ slides = <<>>
    /\ slideshow = -1
    /\ final = NoClip
    /\ final_pre = NoClip
    /\ cap = NoCap
    /\ encoded = NotEncoded
    /\ norm = NoNorm

\* an exception leaves render_video; inside the with block of line 169 the
\* scratch directory is cleaned up on the way out
Raise(e) ==
    /\ pc' = "raised"
    /\ exc' = e
    /\ tmpdir' = IF tmpdir THEN ExitScratch(tmpdir, FALSE) ELSE FALSE
    /\ tmp_files' = IF tmpdir' THEN tmp_files ELSE {}

\* lines 149-161
Collect ==
    /\ pc = "collect"
    /\ \E l \in Listings, m \in MaxImagesEnv :
         LET sorted == SortedByKey(l)
             paths == [i \in 1..Len(sorted) |-> Orig(sorted[i])]
         IN /\ listing' = l
            /\ MAX_IMAGES' = m
            /\ IF paths = <<>>
               THEN /\ Raise("FileNotFoundError")
                    /\ UNCHANGED <<collected, images>>
               ELSE /\ collected' = CapImages(paths, m)
                    /\ images' = collected'
                    /\ pc' = "check_audio"
                    /\ UNCHANGED <<exc, tmpdir, tmp_files>>
    /\ UNCHANGED <<norm, tmp_created, decoded, audio, audio_closed, audio_duration,
                   MODE, durations, total_duration, slides, slideshow, final,
                   final_pre, cap, encoded>>

\* lines 163-164
CheckAudio ==
    /\ pc = "check_audio"
    /\ \E exists \in BOOLEAN :
         IF ~exists
         THEN Raise("FileNotFoundError")
         ELSE /\ pc' = "enter"
              /\ UNCHANGED <<exc, tmpdir, tmp_files>>
    /\ UNCHANGED <<norm, listing, MAX_IMAGES, collected, images, tmp_created, decoded,
                   audio, audio_closed, audio_duration, MODE, durations,
                   total_duration, slides, slideshow, final, final_pre, cap,
                   encoded>>

\* line 169: tempfile.TemporaryDirectory(...).__enter__
EnterScratch ==
    /\ pc = "enter"
    /\ tmpdir' = TRUE
    /\ tmp_created' = TRUE
    /\ pc' = "downscale"
    /\ UNCHANGED <<norm, exc, listing, MAX_IMAGES, collected, images, tmp_files,
                   decoded, audio, audio_closed, audio_duration, MODE,
                   durations, total_duration, slides, slideshow, final,
                   final_pre, cap, encoded>>

\* line 170
Downscale ==
    /\ pc = "downscale"
    /\ \E pil \in BOOLEAN, fails \in SUBSET (1..Len(images)) :
         /\ images' = downscale_images(images, inner_w, inner_h, pil, fails)
         /\ tmp_files' = SavedFiles(images, inner_w, inner_h, pil, fails)
         /\ norm' = [ran |-> TRUE, pil |-> pil,
                     fails |-> IF pil THEN fails ELSE {}]
    /\ pc' = "decode"
    /\ UNCHANGED <<exc, listing, MAX_IMAGES, collected, tmpdir, tmp_created,
                   decoded, audio, audio_closed, audio_duration, MODE,
                   durations, total_duration, slides, slideshow, final,
                   final_pre, cap, encoded>>

\* lines 172-183
DecodeAudio ==
    /\ pc = "decode"
    /\ \E dec \in Decodings :
         /\ decoded' = dec
         /\ audio' = AudioAfterDecode(dec)
         /\ audio_duration' = DurationAfterDecode(dec)
    /\ pc' = "plan"
    /\ UNCHANGED <<norm, exc, listing, MAX_IMAGES, collected, images, tmpdir,
                   tmp_created, tmp_files, audio_closed, MODE, durations,
                   total_duration, slides, slideshow, final, final_pre, cap,
                   encoded>>

\* lines 181 and 185-202
Plan ==
    /\ pc = "plan"
    /\ LET n == Len(images) IN
         IF audio_duration > UsableThreshold /\ n = 0
         THEN /\ Raise("ZeroDivisionError")
              /\ UNCHANGED <<audio, audio_closed, audio_duration, MODE,
                             durations, total_duration>>
         ELSE /\ durations' = [i \in 1..n |-> PerSlide(audio_duration, n)]
              /\ total_duration' = SumSeq(durations')
              /\ IF audio_duration <= UsableThreshold
                 THEN /\ audio_duration' = total_duration'
                      /\ MODE' = "pad_audio"
                      /\ audio' = IF audio # "None" THEN FallbackAudio(audio)
                                  ELSE audio
                      /\ audio_closed' = (audio # "None")
                 ELSE UNCHANGED <<audio_duration, MODE, audio, audio_closed>>
              /\ pc' = "compose"
              /\ UNCHANGED <<exc, tmpdir, tmp_files>>
    /\ UNCHANGED <<norm, listing, MAX_IMAGES, collected, images, tmp_created, decoded,
                   slides, slideshow, final, final_pre, cap, encoded>>

\* lines 207-217; the clip constructors may raise on a file they cannot read
Compose ==
    /\ pc = "compose"
    /\ \E ok \in BOOLEAN :
         IF ~ok /\ Len(images) > 0
         THEN /\ Raise("compose")
              /\ UNCHANGED slides
         ELSE /\ slides' = [i \in 1..Min(Len(images), Len(durations)) |->
                              [img |-> images[i], duration |-> durations[i]]]
              /\ pc' = "sequence"
              /\ UNCHANGED <<exc, tmpdir, tmp_files>>
    /\ UNCHANGED <<norm, listing, MAX_IMAGES, collected, images, tmp_created, decoded,
                   audio, audio_closed, audio_duration, MODE, durations,
                   total_duration, slideshow, final, final_pre, cap, encoded>>

\* line 219; moviepy takes max() over the clips' sizes, which raises on none
Sequence ==
    /\ pc = "sequence"
    /\ IF slides = <<>>
       THEN /\ Raise("ValueError")
            /\ UNCHANGED slideshow
       ELSE /\ slideshow' = Slideshow(slides)
            /\ pc' = "bind"
            /\ UNCHANGED <<exc, tmpdir, tmp_files>>
    /\ UNCHANGED <<norm, listing, MAX_IMAGES, collected, images, tmp_created, decoded,
                   audio, audio_closed, audio_duration, MODE, durations,
                   total_duration, slides, final, final_pre, cap, encoded>>

\* lines 224-239
BindAudio ==
    /\ pc = "bind"
    /\ \E ok \in BOOLEAN :
         LET r == Bind(audio, MODE, slideshow, audio_duration, total_duration,
                       DurationAfterDecode(decoded))
         IN IF ~ok \/ r.raises
            THEN /\ Raise(IF r.raises THEN "ValueError" ELSE "bind")
                 /\ UNCHANGED final
            ELSE /\ final' = r.final
                 /\ pc' = "captions"
                 /\ UNCHANGED <<exc, tmpdir, tmp_files>>
    /\ UNCHANGED <<norm, listing, MAX_IMAGES, collected, images, tmp_created, decoded,
                   audio, audio_closed, audio_duration, MODE, durations,
                   total_duration, slides, slideshow, final_pre, cap, encoded>>

\* lines 244-262; cli: the call comes from render_video.py's main
Captions ==
    /\ pc = "captions"
    /\ final_pre' = final
    /\ \E arg \in BOOLEAN, exists \in BOOLEAN, skip \in BOOLEAN,
          cli \in BOOLEAN, outcome \in CaptionOutcomes :
         LET given == IF cli THEN MainCaptions(arg, exists) ELSE arg
             ran == CaptionsRun(given, exists, skip)
             r == CaptionStage(final, outcome)
         IN /\ cap' = [given |-> given, exists |-> exists, skip |-> skip,
                       ran |-> ran,
                       outcome |-> IF ran THEN outcome ELSE "skipped"]
            /\ IF ran /\ r.raises
               THEN /\ Raise("captions")
                    /\ UNCHANGED final
               ELSE /\ final' = IF ran THEN r.final ELSE final
                    /\ pc' = "encode"
                    /\ UNCHANGED <<exc, tmpdir, tmp_files>>
    /\ UNCHANGED <<norm, listing, MAX_IMAGES, collected, images, tmp_created, decoded,
                   audio, audio_closed, audio_duration, MODE, durations,
                   total_duration, slides, slideshow, encoded>>

\* lines 267-277 and the end of the with block
Encode ==
    /\ pc = "encode"
    /\ encoded' = [called |-> TRUE, duration |-> final.duration,
                   audio |-> (audio # "None"), captions |-> final.captions,
                   scratch |-> tmpdir]
    /\ \E ok \in BOOLEAN :
         IF ok
         THEN /\ pc' = "done"
              /\ tmpdir' = ExitScratch(tmpdir, TRUE)
              /\ tmp_files' = IF tmpdir' THEN tmp_files ELSE {}
              /\ UNCHANGED exc
         ELSE Raise("encode")
    /\ UNCHANGED <<norm, listing, MAX_IMAGES, collected, images, tmp_created, decoded,
                   audio, audio_closed, audio_duration, MODE, durations,
                   total_duration, slides, slideshow, final, final_pre, cap>>

Next ==
    \/ Collect
    \/ CheckAudio
    \/ EnterScratch
    \/ Downscale
    \/ DecodeAudio
    \/ Plan
    \/ Compose
    \/ Sequence
    \/ BindAudio
    \/ Captions
    \/ Encode

Spec == Init /\ [][Next]_vars

----------------------------------------------------------------------------
(* Properties                                                              *)

\* the decoder delivered a finite duration above 0.01 s
UsableAudio ==
    /\ ~decoded.raises
    /\ decoded.duration.kind = "num"
    /\ decoded.duration.v > UsableThreshold

\* the decoder ran and did not deliver a usable duration
UnusableAudio == decoded # NoDecoding /\ ~UsableAudio

\* the Timing Planner ran on n >= 1 slides
Planned == Len(durations) >= 1

\* d = max(A/n + 0.10, TRANSITION + 0.2), multiplied out by n
IsTrimPerSlide(d, A, n) ==
    IF A + n * EPSILON >= n * (TRANSITION + Cs(20))
    THEN n * d = A + n * EPSILON
    ELSE d = TRANSITION + Cs(20)

\* C1: with n >= 1 slides and a usable audio duration A, every slide lasts
\* max(A/n + 0.10, TRANSITION + 0.2) with TRANSITION = 0.6, MODE stays
\* trim_to_audio, and the final clip, as bound and as handed to the encoder,
\* lasts exactly A.
C1_TrimToAudio ==
    (UsableAudio /\ Planned) =>
        LET A == decoded.duration.v
            n == Len(images)
        IN /\ TRANSITION = Cs(60)
           /\ Len(durations) = n
           /\ \A i \in 1..n : IsTrimPerSlide(durations[i], A, n)
           /\ MODE = "trim_to_audio"
           /\ (final # NoClip => final.duration = A /\ final.audio = "clip")
           /\ (encoded.called => encoded.duration = A)

\* 3 images and 9 s of audio were rendered: 3.1 s per slide, 9 s encoded
C1_Witness ==
    /\ pc = "done"
    /\ UsableAudio
    /\ decoded.duration.v = Cs(900)
    /\ durations = <<Cs(310), Cs(310), Cs(310)>>
    /\ encoded.called /\ encoded.duration = Cs(900)

\* C2: when the audio duration is unusable (decoding raised, duration None or
\* zero, non-finite, or <= 0.01 s), for n >= 1 every slide lasts 2.5 s, MODE
\* is pad_audio, the decoded clip is closed and the audio source is absent
\* from the planner on (so before any slide is composed), and the planner
\* does not raise.
C2_Fallback ==
    /\ (UnusableAudio /\ Planned) =>
          /\ Len(durations) = Len(images)
          /\ \A i \in 1..Len(durations) :
               durations[i] = Max(Cs(250), TRANSITION + Cs(20)) /\ durations[i] = Cs(250)
          /\ MODE = "pad_audio"
          /\ audio = "None"
          /\ (~decoded.raises => audio_closed)
    /\ (UnusableAudio /\ slides # <<>>) => audio = "None"
    /\ (UnusableAudio /\ Len(images) >= 1 /\ pc \notin {"decode", "plan"}) => Planned
    /\ (UnusableAudio /\ pc = "raised") => exc # "ZeroDivisionError"

\* an infinite duration was read and two slides were planned by the fallback
C2_Witness ==
    /\ pc = "compose"
    /\ decoded.duration = Inf
    /\ Len(durations) = 2
    /\ MODE = "pad_audio"
    /\ audio = "None" /\ audio_closed

\* C3: when the audio duration is unusable, the final clip handed to the
\* encoder carries an audio track (generated silence) as long as the clip,
\* and the encoder is invoked with audio enabled.
C3_SilenceAttached ==
    (UnusableAudio /\ encoded.called) =>
        /\ final.audio # "none"
        /\ final.audio_len = final.duration
        /\ encoded.audio

\* C4: n >= 1 slides of the planner's uniform duration d concatenate to a
\* slideshow of duration n*d - TRANSITION*(n-1), which is d for n = 1, and
\* the concatenation of n >= 1 slides does not fail.
C4_ConcatDuration ==
    /\ slideshow # -1 =>
          LET n == Len(slides) IN
          /\ n >= 1
          /\ \A i \in 1..n : slides[i].duration = slides[1].duration
          /\ slideshow = n * slides[1].duration - TRANSITION * (n - 1)
          /\ (n = 1 => slideshow = slides[1].duration)
    /\ (pc = "raised" /\ exc = "ValueError") => Len(images) = 0
    /\ (pc \in {"bind", "captions", "encode", "done"}) => slideshow # -1

\* three slides of 3.1 s were concatenated to 8.1 s
C4_Witness ==
    /\ pc = "bind"
    /\ Len(slides) = 3
    /\ slides[1].duration = Cs(310)
    /\ slideshow = Cs(810)

\* C5: when no audio source is bound, the final clip handed to the encoder
\* lasts as long as the cross-fade-concatenated slideshow,
\* n*per_slide - TRANSITION*(n-1), and the encoder is invoked without audio.
C5_SilentNaturalDuration ==
    (encoded.called /\ audio = "None") =>
        /\ encoded.duration = slideshow
        /\ encoded.duration =
             SumSeq(durations) - TRANSITION * (Len(durations) - 1)
        /\ ~encoded.audio

\* C6: after render_video has ended, normally or by an exception, no scratch
\* directory remains; a FileNotFoundError for an empty images directory or a
\* missing audio file is raised before the scratch directory is created and
\* before the encoder is invoked; from its creation to the end of the call
\* the scratch directory exists, in particular when the encoder runs.
C6_ScratchRemoved ==
    /\ pc \in {"done", "raised"} => (~tmpdir /\ tmp_files = {})
    /\ (pc = "raised" /\ exc = "FileNotFoundError") =>
          (~tmp_created /\ ~encoded.called)
    /\ (tmp_created /\ pc \notin {"done", "raised"}) => tmpdir
    /\ encoded.called => encoded.scratch
    /\ pc = "done" => (tmp_created /\ encoded.called)

\* the encoder raised after files had been written to the scratch directory
C6_Witness ==
    /\ pc = "raised"
    /\ exc = "encode"
    /\ tmp_created
    /\ norm.pil /\ norm.fails = {}
    /\ encoded.called /\ encoded.scratch
    /\ ~tmpdir

\* the caption stage has been passed
CaptionsPassed == cap # NoCap

\* C7: the caption stage runs only if a captions path is given, the file
\* exists and SKIP_CAPTIONS is not "1"; when a step inside it raises, the
\* exception does not leave render_video, `final` is what it was before the
\* stage, and the encoder is invoked; applied or not, the stage leaves the
\* final clip's duration (and audio) unchanged.
C7_CaptionsTolerant ==
    /\ exc # "captions"
    /\ CaptionsPassed =>
          /\ cap.ran <=> (cap.given /\ cap.exists /\ ~cap.skip)
          /\ final.captions <=> (cap.ran /\ cap.outcome = "ok")
          /\ (cap.ran /\ cap.outcome # "ok") => final = final_pre
          /\ ~cap.ran => final = final_pre
          /\ final.duration = final_pre.duration
          /\ final.audio = final_pre.audio
          /\ pc \in {"encode", "done", "raised"}
          /\ pc \in {"done", "raised"} =>
                (encoded.called /\ encoded.duration = final_pre.duration)

\* subtitle parsing raised and the video was still encoded, without captions
C7_Witness ==
    /\ pc = "done"
    /\ cap.ran
    /\ cap.outcome = "parse_raises"
    /\ final = final_pre
    /\ encoded.called /\ ~encoded.captions

\* downscale_images has returned
Downscaled == norm.ran

\* C8: downscale_images does not raise and returns a list as long as its
\* input whose i-th entry is the scratch file named after index i-1 when
\* image i was decoded, resized and saved, and the i-th original path when a
\* step failed for it or when the image library is unavailable.
C8_DownscaleKeepsSlides ==
    /\ Downscaled =>
          /\ Len(images) = Len(collected)
          /\ \A i \in 1..Len(collected) :
               images[i] = IF norm.pil /\ i \notin norm.fails
                           THEN [dir |-> "tmp", name |-> Fmt03(i - 1)]
                           ELSE collected[i]
          /\ (~norm.pil => images = collected)
          /\ (tmpdir => \A i \in 1..Len(images) :
                images[i].dir = "tmp" => images[i].name \in tmp_files)
    /\ (tmp_created /\ pc \notin {"downscale", "raised"}) => Downscaled
    /\ (tmp_created /\ pc = "raised") => Downscaled

\* of three images the second failed: 000.jpg, the original, 002.jpg
C8_Witness ==
    /\ pc = "decode"
    /\ Len(collected) = 3
    /\ norm.pil /\ norm.fails = {2}
    /\ images[1] = [dir |-> "tmp", name |-> <<48, 48, 48>>]
    /\ images[2] = collected[2]
    /\ images[3] = [dir |-> "tmp", name |-> <<48, 48, 50>>]

\* C9: in trim_to_audio mode the cross-fade-concatenated slideshow is never
\* shorter than the audio: n*per_slide - TRANSITION*(n-1) >= A.
C9_SlideshowCoversAudio ==
    (UsableAudio /\ MODE = "trim_to_audio" /\ slideshow # -1) =>
        /\ slideshow >= decoded.duration.v
        /\ Len(durations) * durations[1] - TRANSITION * (Len(durations) - 1)
             >= decoded.duration.v

\* the Image Collector did not raise FileNotFoundError
CollectorPassed == pc # "collect" /\ listing # <<>>

\* C10: when the Image Collector does not raise, it hands on the first
\* min(k, MAX_IMAGES) entries of the case-insensitively sorted listing of k
\* files, and that list is not empty, so the planner's n is >= 1.
C10_CollectorNonEmpty ==
    CollectorPassed =>
        LET sorted == SortedByKey(listing)
            k == Len(sorted)
        IN /\ Len(collected) = Min(k, MAX_IMAGES)
           /\ \A i \in 1..Len(collected) : collected[i] = Orig(sorted[i])
           /\ collected # <<>>
           /\ Len(images) >= 1
           /\ exc # "ZeroDivisionError"

====
